---- MODULE Spec2Model ----
(***************************************************************************)
(* A model of sdriving/tsim/vehicle.py: the batched vehicle fleet          *)
(* (_BatchedVehicle), its coordinate cache, its edge extraction, its       *)
(* collision check, the renderer and safety_circle_overlap.                *)
(*                                                                         *)
(* Tensors are sequences: an N x 2 tensor is a sequence of N sequences of  *)
(* length 2, an N x 4 x 2 tensor a sequence of N sequences of 4 pairs.     *)
(* Indices are 1-based here and 0-based in the source.                     *)
(*                                                                         *)
(* Numbers are integers.  Angles are counted in quarter turns, so that     *)
(* sine and cosine are exact; lengths are even integers, so that halving   *)
(* a dimension is exact.                                                   *)
(***************************************************************************)
EXTENDS Integers, Sequences, FiniteSets

VARIABLES op, arg, ret, fleet, hist

vars == <<op, arg, ret, fleet, hist>>

\* The largest fleet size explored.
MaxN == 2

\* pi, in quarter turns (math.pi).
Pi == 2

\* "No value": the return value of an operation that returns nothing, and
\* a history entry that has no value yet.
None == <<>>

----------------------------------------------------------------------------
(* sdriving.tsim.utils: the helpers vehicle.py imports.                    *)

\* cos and sin of an angle given in quarter turns.
Cos(t) == CASE t % 4 = 0 -> 1
            [] t % 4 = 1 -> 0
            [] t % 4 = 2 -> -1
            [] OTHER     -> 0

Sin(t) == CASE t % 4 = 0 -> 0
            [] t % 4 = 1 -> 1
            [] t % 4 = 2 -> 0
            [] OTHER     -> -1

\* angle_normalize: every entry of an N x 1 tensor of angles brought into
\* (-pi, pi].
angle_normalize(angle) ==
    [n \in 1..Len(angle) |->
        [k \in 1..Len(angle[n]) |->
            ((angle[n][k] + Pi - 1) % (2 * Pi)) - (Pi - 1)]]

\* transform_2d_coordinates: world = R(theta) . local + trans, for each of
\* the 4 corners of each vehicle.  coordinates is N x 4 x 2, theta has N
\* entries, trans is N x 1 x 2.
transform_2d_coordinates(coordinates, theta, trans) ==
    [n \in 1..Len(coordinates) |->
        [i \in 1..Len(coordinates[n]) |->
            LET x == coordinates[n][i][1]
                y == coordinates[n][i][2]
            IN  << Cos(theta[n]) * x - Sin(theta[n]) * y + trans[n][1][1],
                   Sin(theta[n]) * x + Cos(theta[n]) * y + trans[n][1][2] >>]]

----------------------------------------------------------------------------
(* _BatchedVehicle                                                         *)

\* The sign pattern of the four corners (mul_factor).
mul_factor == << <<1, 1>>, <<1, -1>>, <<-1, -1>>, <<-1, 1>> >>

\* _get_coordinates: marks the cache valid and returns the transformed
\* corners.  It does not store them.
_get_coordinates(self) ==
    [obj |-> [self EXCEPT !.cached_coordinates = TRUE],
     ret |-> transform_2d_coordinates(
                 self.base_coordinates,
                 [n \in 1..Len(self.orientation) |-> self.orientation[n][1]],
                 [n \in 1..Len(self.position) |-> <<self.position[n]>>])]

\* get_coordinates with the flag ignored: the stored corners, always.
get_coordinates_stored(self) == [obj |-> self, ret |-> self.coordinates]

\* get_coordinates: the stored corners when the flag is set, else a fresh
\* computation.
get_coordinates(self) ==
    IF self.cached_coordinates
    THEN [obj |-> self, ret |-> self.coordinates]
    ELSE _get_coordinates(self)

\* The constructor.  safety_circle holds 100 r^2 for the radius
\* r = 1.3 sqrt(sum((dimensions / 2)^2)), which is 169 sum((dimensions / 2)^2):
\* the radius itself is not an integer.  Lidar and vision ranges are in
\* tenths.  No argument is validated.
BatchedVehicle(position, orientation, destination, dest_orientation, dimensions, initial_speed, name) ==
    LET nbatch == Len(position)
        self0 ==
          [name |-> name,
           position |-> position,
           orientation |-> angle_normalize(orientation),
           destination |-> destination,
           dest_orientation |-> angle_normalize(dest_orientation),
           dimensions |-> dimensions,
           nbatch |-> nbatch,
           diag_bool_buffer |->
               [a \in 1..(nbatch * 4) |-> [b \in 1..(nbatch * 4) |-> a # b]],
           speed |-> initial_speed,
           safety_circle |->
               [n \in 1..Len(dimensions) |->
                   << 169 * ((dimensions[n][1] \div 2) * (dimensions[n][1] \div 2)
                           + (dimensions[n][2] \div 2) * (dimensions[n][2] \div 2)) >>],
           base_coordinates |->
               [n \in 1..Len(dimensions) |->
                   [i \in 1..4 |->
                       << (mul_factor[i][1] * dimensions[n][1]) \div 2,
                          (mul_factor[i][2] * dimensions[n][2]) \div 2 >>]],
           cached_coordinates |-> FALSE,
           coordinates |-> None,
           max_lidar_range |-> 500,
           min_lidar_range |-> 25,
           vision_range |-> 500]
        r == _get_coordinates(self0)
    IN  [r.obj EXCEPT !.coordinates = r.ret]

\* update_state with the speed slice one column to the left, [:, 1:2].
update_state_speed_slip(self, state) ==
    [self EXCEPT !.position = [n \in 1..Len(state) |-> SubSeq(state[n], 1, 2)],
                 !.speed = [n \in 1..Len(state) |-> SubSeq(state[n], 2, 2)],
                 !.orientation = [n \in 1..Len(state) |-> SubSeq(state[n], 4, 4)],
                 !.cached_coordinates = FALSE]

\* update_state: position, speed and orientation are the column slices
\* [:, :2], [:, 2:3] and [:, 3:4] of state; the cache flag is cleared.
update_state(self, state) ==
    [self EXCEPT !.position = [n \in 1..Len(state) |-> SubSeq(state[n], 1, 2)],
                 !.speed = [n \in 1..Len(state) |-> SubSeq(state[n], 3, 3)],
                 !.orientation = [n \in 1..Len(state) |-> SubSeq(state[n], 4, 4)],
                 !.cached_coordinates = FALSE]

\* get_state: position, speed and orientation concatenated along the last
\* dimension.
get_state(self) ==
    [n \in 1..Len(self.position) |->
        self.position[n] \o self.speed[n] \o self.orientation[n]]

\* get_edges: pt1 is the corners; pt2 is the concatenation, along
\* dimension 1, of the slices [:, :, 1:] and [:, :, 0:1] of the corners.
\* Both slices cut the last dimension (the x and y of a corner).
get_edges(self) ==
    LET r == get_coordinates(self)
        coordinates == r.ret
        pt1 == coordinates
        pt2 == [n \in 1..Len(coordinates) |->
                   [i \in 1..Len(coordinates[n]) |->
                       SubSeq(coordinates[n][i], 2, Len(coordinates[n][i]))]
                   \o
                   [i \in 1..Len(coordinates[n]) |->
                       SubSeq(coordinates[n][i], 1, 1)]]
    IN  [obj |-> r.obj, ret |-> <<pt1, pt2>>]

\* The scalars of a 3-dimensional tensor in row-major order.
RECURSIVE Concat(_)
Concat(ss) == IF ss = <<>> THEN <<>> ELSE Head(ss) \o Concat(Tail(ss))

Flatten(t) == Concat(Concat(t))

\* t.view(-1, 2)
View2(t) ==
    LET f == Flatten(t)
    IN  [k \in 1..(Len(f) \div 2) |-> <<f[2 * k - 1], f[2 * k]>>]

\* collision_check.  intersects is what check_intersection_lines returned
\* for (p1, p2, p1, p2): a 4N x 4N boolean matrix.  It is multiplied by
\* diag_bool_buffer, viewed as nbatch x 4 x 4N and reduced with any over
\* dimension 1 twice.
collision_check(self, intersects) ==
    LET r == get_edges(self)
        p1 == View2(r.ret[1])
        p2 == View2(r.ret[2])
        c == [a \in 1..Len(p1) |->
                 [b \in 1..Len(p2) |->
                     intersects[a][b] /\ self.diag_bool_buffer[a][b]]]
        view == [v \in 1..self.nbatch |->
                    [e \in 1..4 |-> c[4 * (v - 1) + e]]]
        any1 == [v \in 1..self.nbatch |->
                    [b \in 1..Len(view[v][1]) |->
                        \E e \in 1..4 : view[v][e][b]]]
    IN  [obj |-> r.obj,
         ret |-> [v \in 1..self.nbatch |->
                     \E b \in 1..Len(any1[v]) : any1[v][b]]]

----------------------------------------------------------------------------
(* render_vehicle                                                          *)

\* The loop over b in range(obj.nbatch), from iteration b on.  Each
\* iteration reads position, orientation, dimensions and destination and
\* calls obj.get_coordinates(); drawn collects what is handed to the plot.
RECURSIVE render_loop(_, _, _)
render_loop(obj, b, drawn) ==
    IF b > obj.nbatch
    THEN [obj |-> obj, ret |-> drawn]
    ELSE LET r == get_coordinates(obj)
         IN  render_loop(r.obj, b + 1,
                 Append(drawn, [pos |-> obj.position[b],
                                h |-> obj.orientation[b],
                                dim |-> obj.dimensions[b][1],
                                box |-> r.ret[b],
                                lr |-> obj.max_lidar_range,
                                dest |-> obj.destination[b]]))

render_vehicle(obj) == render_loop(obj, 1, <<>>)

----------------------------------------------------------------------------
(* safety_circle_overlap                                                   *)

\* circle_area_overlap, row by row.  The area is kept as a term: zero when
\* d >= r1 + r2, the area of the smaller circle when d <= |r1 - r2|, the
\* lens of (d, r1, r2) otherwise.  With D = 100 d^2 and R = 100 r^2 the two
\* comparisons are decided in integers.
circle_area_overlap(center1, center2, radius1, radius2) ==
    [k \in 1..Len(center1) |->
        LET D  == 100 * ((center1[k][1] - center2[k][1]) * (center1[k][1] - center2[k][1])
                       + (center1[k][2] - center2[k][2]) * (center1[k][2] - center2[k][2]))
            R1 == radius1[k][1]
            R2 == radius2[k][1]
        IN  IF D - R1 - R2 >= 0 /\ (D - R1 - R2) * (D - R1 - R2) >= 4 * R1 * R2
            THEN [kind |-> "zero"]
            ELSE IF R1 + R2 - D >= 0 /\ (R1 + R2 - D) * (R1 + R2 - D) >= 4 * R1 * R2
            THEN [kind |-> "circle", R |-> IF R1 <= R2 THEN R1 ELSE R2]
            ELSE [kind |-> "lens", D |-> D, R1 |-> R1, R2 |-> R2]]

\* t.repeat(k, 1): the rows of t, k times over.
Repeat(t, k) == [r \in 1..(Len(t) * k) |-> t[((r - 1) % Len(t)) + 1]]

\* t.unsqueeze(0).repeat(k, 1, 1).view(-1, w): k copies of t one after the
\* other, which is the same rows.
UnsqueezeRepeatView(t, k) == Concat([i \in 1..k |-> t])

safety_circle_overlap(obj1, obj2) ==
    LET center1 == Repeat(obj1.position, obj2.nbatch)
        center2 == UnsqueezeRepeatView(obj2.position, obj1.nbatch)
        radius1 == Repeat(obj1.safety_circle, obj2.nbatch)
        radius2 == UnsqueezeRepeatView(obj2.safety_circle, obj1.nbatch)
        flat == circle_area_overlap(center1, center2, radius1, radius2)
    IN  [i \in 1..obj1.nbatch |->
            [j \in 1..obj2.nbatch |-> flat[(i - 1) * obj2.nbatch + j]]]

----------------------------------------------------------------------------
(* The inputs explored.                                                    *)

\* One vehicle's constructor arguments.  Car2 arrives with an orientation
\* outside (-pi, pi]; Car4 has a width of zero.
Car1 == [position |-> <<0, 0>>, orientation |-> <<0>>, dimensions |-> <<4, 2>>,
         initial_speed |-> <<0>>]

Car2 == [position |-> <<3, 0>>, orientation |-> <<5>>, dimensions |-> <<4, 2>>,
         initial_speed |-> <<1>>]

Car3 == [position |-> <<12, 0>>, orientation |-> <<-2>>, dimensions |-> <<2, 2>>,
         initial_speed |-> <<0>>]

Car4 == [position |-> <<12, 0>>, orientation |-> <<0>>, dimensions |-> <<2, 0>>,
         initial_speed |-> <<0>>]

Cars == {Car1, Car2, Car3}

\* The name argument: one name for each vehicle.
Names(N) == { [n \in 1..N |-> "car"] }

\* The name argument as any caller may give it: the default, ["car"], too.
AnyNames(N) == Names(N) \cup { <<"car">> }

\* A fleet built from one choice of Cars for each vehicle.
NewFleet(cars, name) ==
    BatchedVehicle([n \in 1..Len(cars) |-> cars[n].position],
                   [n \in 1..Len(cars) |-> cars[n].orientation],
                   [n \in 1..Len(cars) |-> <<12, 0>>],
                   [n \in 1..Len(cars) |-> <<4>>],
                   [n \in 1..Len(cars) |-> cars[n].dimensions],
                   [n \in 1..Len(cars) |-> cars[n].initial_speed],
                   name)

\* The rows (x, y, speed, orientation) handed to update_state.  The second
\* carries an orientation of 3 pi / 2.
StateRows == { <<0, 0, 1, 1>>, <<12, 0, 2, 3>> }

\* The outcomes of check_intersection_lines explored: no two edges
\* intersect, or exactly the first edge and edge y do, for y the first edge
\* itself, its neighbour, and the last edge of the fleet.
Intersections(N) ==
    { [a \in 1..(4 * N) |-> [b \in 1..(4 * N) |-> FALSE]] }
    \cup
    { [a \in 1..(4 * N) |-> [b \in 1..(4 * N) |-> {a, b} = {1, y}]] :
          y \in {1, 2, 4 * N} }

\* The second fleets handed to safety_circle_overlap.
OtherFleets ==
    { NewFleet(<<Car1>>, <<"car">>), NewFleet(<<Car1, Car2>>, <<"car", "car">>) }

\* The smaller of two numbers (the count of get_coordinates calls saturates).
Min(a, b) == IF a <= b THEN a ELSE b

----------------------------------------------------------------------------
(* The state machine.  fleet is the object; op, arg and ret are the last    *)
(* operation, its argument and what it returned; hist remembers, for       *)
(* the properties below: lastState, the argument of the last update_state; *)
(* preCache, the stored corners when it was called; gcCalls, how many      *)
(* times get_coordinates ran since (at most 2 are counted).                *)

\* The state after the construction of a fleet from the given arguments.
Constructed(cars, name) ==
    /\ fleet = NewFleet(cars, name)
    /\ op = "BatchedVehicle"
    /\ arg = None
    /\ ret = None
    /\ hist = [lastState |-> None, preCache |-> None, gcCalls |-> 0]

\* Construction from arguments that agree on N, with positive dimensions.
Init ==
    \E N \in 1..MaxN :
        \E cars \in [1..N -> Cars], name \in Names(N) :
            Constructed(cars, name)

\* Construction from any arguments: a dimension of zero and a name list of
\* another length than N included.
InitAnyArguments ==
    \E N \in 1..MaxN :
        \E cars \in [1..N -> Cars \cup {Car4}], name \in AnyNames(N) :
            Constructed(cars, name)

UpdateState ==
    \E state \in [1..fleet.nbatch -> StateRows] :
        /\ fleet' = update_state(fleet, state)
        /\ op' = "update_state" /\ arg' = state
        /\ ret' = None
        /\ hist' = [lastState |-> state, preCache |-> fleet.coordinates,
                    gcCalls |-> 0]

GetCoordinates ==
    LET r == get_coordinates(fleet)
    IN  /\ fleet' = r.obj
        /\ op' = "get_coordinates" /\ arg' = None
        /\ ret' = r.ret
        /\ hist' = [hist EXCEPT !.gcCalls = Min(2, @ + 1)]

GetEdges ==
    LET r == get_edges(fleet)
    IN  /\ fleet' = r.obj
        /\ op' = "get_edges" /\ arg' = None
        /\ ret' = r.ret
        /\ hist' = [hist EXCEPT !.gcCalls = Min(2, @ + 1)]

GetState ==
    /\ op' = "get_state" /\ arg' = None
    /\ ret' = get_state(fleet)
    /\ UNCHANGED <<fleet, hist>>

CollisionCheck ==
    \E intersects \in Intersections(fleet.nbatch) :
        LET r == collision_check(fleet, intersects)
        IN  /\ fleet' = r.obj
            /\ op' = "collision_check" /\ arg' = intersects
            /\ ret' = r.ret
            /\ hist' = [hist EXCEPT !.gcCalls = Min(2, @ + 1)]

RenderVehicle ==
    LET r == render_vehicle(fleet)
    IN  /\ fleet' = r.obj
        /\ op' = "render_vehicle" /\ arg' = None
        /\ ret' = r.ret
        /\ hist' = [hist EXCEPT !.gcCalls = Min(2, @ + fleet.nbatch)]

SafetyCircleOverlap ==
    \E pair \in ({fleet} \X OtherFleets) \cup (OtherFleets \X {fleet})
                \cup {<<fleet, fleet>>} :
        /\ op' = "safety_circle_overlap" /\ arg' = pair
        /\ ret' = safety_circle_overlap(pair[1], pair[2])
        /\ UNCHANGED <<fleet, hist>>

Next ==
    \/ UpdateState
    \/ GetCoordinates
    \/ GetEdges
    \/ GetState
    \/ CollisionCheck
    \/ RenderVehicle
    \/ SafetyCircleOverlap

Spec == Init /\ [][Next]_vars

SpecAnyArguments == InitAnyArguments /\ [][Next]_vars

----------------------------------------------------------------------------
(* The properties.                                                         *)

\* CoordinateTransform: the world corners of a fleet with the given local
\* corners, positions (N x 2) and orientations (N x 1).
CoordinateTransform(base_coordinates, position, orientation) ==
    transform_2d_coordinates(
        base_coordinates,
        [n \in 1..Len(orientation) |-> orientation[n][1]],
        [n \in 1..Len(position) |-> <<position[n]>>])

\* The world corners of the fleet's current position and orientation.
CurrentCorners ==
    CoordinateTransform(fleet.base_coordinates, fleet.position, fleet.orientation)

\* The world corners of the position and orientation columns of the last
\* update_state's argument.
UpdatedCorners ==
    CoordinateTransform(
        fleet.base_coordinates,
        [n \in 1..Len(hist.lastState) |->
            <<hist.lastState[n][1], hist.lastState[n][2]>>],
        [n \in 1..Len(hist.lastState) |-> <<hist.lastState[n][4]>>])

\* C1: in every reachable state the stored corners equal the
\* CoordinateTransform of the current position and orientation if and only
\* if the cache flag is set.
C1_CacheValidIffFlag ==
    fleet.cached_coordinates <=> (fleet.coordinates = CurrentCorners)

\* C2: two consecutive get_coordinates calls, with no update_state between
\* them, return the same value.
C2_GetCoordinatesIdempotent ==
    [][(op = "get_coordinates" /\ op' = "get_coordinates")
           => ret' = ret]_vars

\* C3: collision_check returns true for vehicle v if and only if some edge
\* of v intersects some edge of another vehicle w; no pair of edges of one
\* vehicle makes the result true.
C3_CollisionIffOtherVehicle ==
    op = "collision_check" =>
        \A v \in 1..fleet.nbatch :
            ret[v] <=>
                \E w \in (1..fleet.nbatch) \ {v} :
                    \E e \in 1..4, f \in 1..4 :
                        arg[4 * (v - 1) + e][4 * (w - 1) + f]

\* C4: safety_circle_overlap(A, B) is an N_A x N_B matrix whose entry
\* [i, j] is the overlap of the safety circles of vehicle i of A and
\* vehicle j of B.
C4_OverlapMatrix ==
    op = "safety_circle_overlap" =>
        LET A == arg[1]
            B == arg[2]
        IN  /\ Len(ret) = A.nbatch
            /\ \A i \in 1..A.nbatch :
                   /\ Len(ret[i]) = B.nbatch
                   /\ \A j \in 1..B.nbatch :
                          ret[i][j] =
                              circle_area_overlap(
                                  <<A.position[i]>>, <<B.position[j]>>,
                                  <<A.safety_circle[i]>>, <<B.safety_circle[j]>>)[1]

\* C5: after construction and after every update_state every stored
\* orientation lies in (-pi, pi].
C5_OrientationNormalized ==
    \A n \in 1..Len(fleet.orientation) :
        -Pi < fleet.orientation[n][1] /\ fleet.orientation[n][1] <= Pi

\* C6: get_edges returns (p1, p2), both N x 4 x 2, with p1[n][i] corner i
\* of vehicle n and p2[n][i] corner i + 1 mod 4 of the same vehicle.
C6_EdgesAreRectangleSides ==
    op = "get_edges" =>
        LET p1 == ret[1]
            p2 == ret[2]
        IN  /\ Len(p1) = fleet.nbatch
            /\ Len(p2) = fleet.nbatch
            /\ \A n \in 1..fleet.nbatch :
                   /\ Len(p1[n]) = 4
                   /\ Len(p2[n]) = 4
                   /\ \A i \in 1..4 :
                          /\ p1[n][i] = CurrentCorners[n][i]
                          /\ p2[n][i] = CurrentCorners[n][(i % 4) + 1]

\* C7: the first get_coordinates call after update_state(s) returns the
\* CoordinateTransform of the position and orientation in s, and so not the
\* corners stored before the update unless the two are the same.
C7_FirstGetCoordinatesRecomputes ==
    (op = "get_coordinates" /\ hist.lastState # None /\ hist.gcCalls = 1) =>
        /\ ret = UpdatedCorners
        /\ (UpdatedCorners # hist.preCache => ret # hist.preCache)

\* C7, its case: a get_coordinates call, the first since an update_state
\* that moved the fleet, has returned.
C7_Witness ==
    /\ op = "get_coordinates"
    /\ hist.lastState # None
    /\ hist.gcCalls = 1
    /\ UpdatedCorners # hist.preCache
    /\ fleet.nbatch > 1

\* C8: get_state after update_state(s) returns s, whatever queries ran in
\* between.
C8_GetStateReturnsUpdate ==
    (op = "get_state" /\ hist.lastState # None) => ret = hist.lastState

\* C8, its case: get_state has returned after an update_state whose
\* orientation column holds a value outside (-pi, pi], with a
\* get_coordinates call in between.
C8_Witness ==
    /\ op = "get_state"
    /\ hist.lastState # None
    /\ hist.gcCalls > 0
    /\ \E n \in 1..Len(hist.lastState) : hist.lastState[n][4] > Pi

\* C9: render_vehicle leaves every field of the fleet unchanged, the cache
\* flag and the stored corners included.
C9_RenderIsPureReader ==
    [][op' = "render_vehicle" => fleet' = fleet]_vars

\* C10: no fleet is constructed from batched arguments that disagree on
\* the leading dimension or from a dimension that is not positive.
C10_ConstructionValidates ==
    /\ Len(fleet.orientation) = fleet.nbatch
    /\ Len(fleet.destination) = fleet.nbatch
    /\ Len(fleet.dest_orientation) = fleet.nbatch
    /\ Len(fleet.dimensions) = fleet.nbatch
    /\ Len(fleet.speed) = fleet.nbatch
    /\ Len(fleet.name) = fleet.nbatch
    /\ \A n \in 1..Len(fleet.dimensions) :
           fleet.dimensions[n][1] > 0 /\ fleet.dimensions[n][2] > 0

====
